---- MODULE Spec2Model ----
(***************************************************************************)
(* Model of auto_ssl_bypass.py: the provisioning pipeline                  *)
(* (start_frida_server) followed by the instrumentation session            *)
(* (hook_proxygen_SSLVerification).  The program is one sequential         *)
(* script; pc is its position.  Every external call (adb through           *)
(* subprocess, HTTP through requests, the local filesystem, the frida      *)
(* runtime) is one step whose outcome is chosen nondeterministically.      *)
(***************************************************************************)
EXTENDS Integers, Sequences, FiniteSets, TLC

VARIABLES
    pc,              \* position of the script
    platform,        \* host OS family: decides how subprocess treats shell=True
    deviceBinary,    \* /data/local/tmp/frida-server exists on the device
    deviceExec,      \* that file is executable
    serverProcs,     \* number of frida-server processes running on the device
    localFiles,      \* files in the host's working directory
    payloadExists,   \* ./MAIN_SSLPINING.js exists
    calls,           \* external operations issued by the script, in order
    deviceCmds,      \* privileged shell strings the device actually received
    failed,          \* external operations that reported failure
    abi,             \* get_device_arch's local arch (the stripped stdout)
    device_arch,     \* start_frida_server's local device_arch
    http_status,     \* outcome of requests.get ("none" before it)
    server_exists,   \* what check_existing_frida_server returned
    filename,        \* start_frida's parameter filename (None is <<>>)
    target,          \* state of the spawned com.facebook.katana process
    attached,        \* session = device.attach(pid) returned
    scriptCreated,   \* session.create_script returned
    handlerOn,       \* script.on("message", ...) registered
    scriptLoaded,    \* script.load() returned
    msgs,            \* messages delivered to the handler
    msgsEarly,       \* of those, delivered before the blocking wait
    errCategory,     \* which diagnostic the session step printed
    failedStep,      \* the runtime call that raised
    raised,          \* the exception it raised
    exitCode         \* process exit status ("none" while running)

vars == <<pc, platform, deviceBinary, deviceExec, serverProcs, localFiles,
          payloadExists, calls, deviceCmds, failed, device_arch, abi, http_status,
          server_exists, filename, target, attached, scriptCreated,
          handlerOn, scriptLoaded, msgs, msgsEarly, errCategory, failedStep,
          raised, exitCode>>

deviceVars == <<deviceBinary, deviceExec, serverProcs>>
sessionVars == <<target, attached, scriptCreated, handlerOn, scriptLoaded,
                 msgs, msgsEarly, errCategory, failedStep, raised>>

\* Largest number of payload messages the runtime delivers in one run.
MaxMessages == 2

None == <<>>

(***************************************************************************)
(* Pure helpers                                                            *)
(***************************************************************************)

Whitespace == {" ", "\n"}

\* str.strip() on a text given as a sequence of tokens, each a whitespace
\* character or a word.
RECURSIVE lstrip(_)
lstrip(s) == IF s # <<>> /\ Head(s) \in Whitespace THEN lstrip(Tail(s)) ELSE s

RECURSIVE rstrip(_)
rstrip(s) ==
    IF s # <<>> /\ s[Len(s)] \in Whitespace
    THEN rstrip(SubSeq(s, 1, Len(s) - 1))
    ELSE s

strip(s) == rstrip(lstrip(s))

\* The stripped text as one string: empty, or the single word left.
Text(s) == IF s = <<>> THEN "" ELSE s[1]

\* Variant of arch_map whose fallback is a fixed tag instead of the input.
arch_map_unknown(arch) ==
    CASE arch = "arm64-v8a"   -> "android-arm64"
      [] arch = "armeabi-v7a" -> "android-arm"
      [] arch = "x86"         -> "android-x86"
      [] arch = "x86_64"      -> "android-x86_64"
      [] OTHER                -> "unknown"

\* arch_map.get(arch, arch)
arch_map(arch) ==
    CASE arch = "arm64-v8a"   -> "android-arm64"
      [] arch = "armeabi-v7a" -> "android-arm"
      [] arch = "x86"         -> "android-x86"
      [] arch = "x86_64"      -> "android-x86_64"
      [] OTHER                -> arch

\* What `adb shell getprop ro.product.cpu.abi` can print: a known or unknown
\* ABI followed by a newline, or nothing when the query fails.
AbiOutputs ==
    { <<a, "\n">> : a \in {"arm64-v8a", "armeabi-v7a", "x86", "x86_64", "riscv64"} }
      \cup { <<>>, <<"\n">>, <<" ", "x86", " ", "\n">> }

\* filename = f"frida-server-{frida_version}-{arch}", and the same with ".xz"
DownloadName(frida_version, arch) == <<"frida-server-", frida_version, "-", arch>>
XzName(frida_version, arch) == DownloadName(frida_version, arch) \o <<".xz">>
LocalBinary == <<"frida-server">>
FridaVersion == "16.5.9"

\* subprocess.run(argv, shell=...): with shell=True and a list, POSIX runs
\* `sh -c argv[0]` and hands the other items to the shell as its own
\* positional parameters, so only the first item is executed; Windows joins
\* the list into one command line.
EffectiveArgv(argv, shell) ==
    IF shell /\ platform = "posix" THEN <<argv[1]>> ELSE argv

\* The command string reaches the device iff the executed argv is
\* `adb shell <string>`.
Delivered(argv, shell) ==
    LET e == EffectiveArgv(argv, shell) IN Len(e) = 3 /\ e[2] = "shell"

KillCmd   == "su -c \"pkill -9 frida-server\""
ChmodCmd  == "su -c \"chmod 755 /data/local/tmp/frida-server\""
LaunchCmd == "su -c \"/data/local/tmp/frida-server -D\""

Issue(op) == calls' = Append(calls, op)

\* sys.exit(code)
Exit(code) == pc' = "exited" /\ exitCode' = code

Issued(op) == \E i \in 1..Len(calls) : calls[i] = op

(***************************************************************************)
(* Initial state: the script is about to run start_frida_server.  The      *)
(* device's server is absent, stopped or running; stale files of an        *)
(* earlier run may lie in the working directory.                           *)
(***************************************************************************)
Init ==
    /\ pc = "check_adb"
    /\ platform \in {"posix", "nt"}
    /\ deviceBinary \in BOOLEAN
    /\ deviceExec \in BOOLEAN
    /\ serverProcs \in {0, 1}
    /\ deviceExec => deviceBinary
    /\ serverProcs = 1 => deviceExec
    /\ localFiles \in SUBSET {LocalBinary,
                               DownloadName(FridaVersion, "android-arm64"),
                               XzName(FridaVersion, "android-arm64")}
    /\ payloadExists \in BOOLEAN
    /\ calls = <<>>
    /\ deviceCmds = <<>>
    /\ failed = {}
    /\ abi = ""
    /\ device_arch = ""
    /\ http_status = "none"
    /\ server_exists = "unknown"
    /\ filename = None
    /\ target = "none"
    /\ attached = FALSE
    /\ scriptCreated = FALSE
    /\ handlerOn = FALSE
    /\ scriptLoaded = FALSE
    /\ msgs = 0
    /\ msgsEarly = 0
    /\ errCategory = "none"
    /\ failedStep = "none"
    /\ raised = "none"
    /\ exitCode = "none"

(***************************************************************************)
(* start_frida_server: environment checks                                  *)
(***************************************************************************)

\* subprocess.run(["adb", "version"]) raises FileNotFoundError when adb is
\* not installed; its exit status is not looked at.
check_adb_availability ==
    /\ pc = "check_adb"
    /\ Issue("adb_version")
    /\ \E found \in BOOLEAN :
          IF found
          THEN pc' = "check_device" /\ UNCHANGED <<exitCode, failed>>
          ELSE Exit("1") /\ failed' = failed \cup {"adb_version"}
    /\ UNCHANGED <<platform, http_status, deviceVars, localFiles, payloadExists, deviceCmds,
                   device_arch, abi, server_exists, filename, sessionVars>>

\* Variant of check_device_connection that reports the missing device but
\* does not stop the run.
check_device_connection_noexit ==
    /\ pc = "check_device"
    /\ \E connected \in BOOLEAN :
          IF connected
          THEN /\ calls' = calls \o <<"get_state", "getprop_manufacturer",
                                      "getprop_device", "getprop_release">>
               /\ UNCHANGED failed
          ELSE /\ Issue("get_state")
               /\ failed' = failed \cup {"get_state"}
    /\ pc' = "launch_scrcpy"
    /\ UNCHANGED <<platform, http_status, deviceVars, localFiles, payloadExists,
                   deviceCmds, device_arch, abi, server_exists, filename,
                   sessionVars, exitCode>>

\* "device" not in result.stdout -> sys.exit(1); otherwise three display-only
\* property queries (_get_prop never propagates a failure).
check_device_connection ==
    /\ pc = "check_device"
    /\ \E connected \in BOOLEAN :
          IF connected
          THEN /\ calls' = calls \o <<"get_state", "getprop_manufacturer",
                                      "getprop_device", "getprop_release">>
               /\ pc' = "launch_scrcpy"
               /\ UNCHANGED <<exitCode, failed>>
          ELSE /\ Issue("get_state")
               /\ Exit("1")
               /\ failed' = failed \cup {"get_state"}
    /\ UNCHANGED <<platform, http_status, deviceVars, localFiles, payloadExists, deviceCmds,
                   device_arch, abi, server_exists, filename, sessionVars>>

\* Popen(["scrcpy"]): every failure is caught and only reported.
launch_scrcpy ==
    /\ pc = "launch_scrcpy"
    /\ Issue("scrcpy")
    /\ \E ok \in BOOLEAN :
          failed' = IF ok THEN failed ELSE failed \cup {"scrcpy"}
    /\ pc' = "get_arch"
    /\ UNCHANGED <<platform, http_status, deviceVars, localFiles, payloadExists, deviceCmds,
                   device_arch, abi, server_exists, filename, sessionVars, exitCode>>

\* subprocess.run without check=True never raises CalledProcessError: a
\* failed query prints nothing and the function returns arch_map.get("", "").
get_device_arch ==
    /\ pc = "get_arch"
    /\ Issue("getprop_abi")
    /\ \E stdout \in AbiOutputs :
          /\ abi' = Text(strip(stdout))
          /\ device_arch' = arch_map(Text(strip(stdout)))
          /\ failed' = IF stdout = <<>> THEN failed \cup {"getprop_abi"} ELSE failed
    /\ pc' = "check_existing"
    /\ UNCHANGED <<platform, http_status, deviceVars, localFiles, payloadExists, deviceCmds,
                   server_exists, filename, sessionVars, exitCode>>

\* Variant of check_existing_frida_server whose caller downloads although
\* the binary was reported present.
check_existing_frida_server_ignored ==
    /\ pc = "check_existing"
    /\ Issue("ls")
    /\ \E ran \in BOOLEAN :
          server_exists' = IF ran /\ deviceBinary THEN "yes" ELSE "no"
    /\ pc' = "http_get"
    /\ UNCHANGED <<platform, http_status, deviceVars, localFiles, payloadExists,
                   deviceCmds, failed, device_arch, abi, filename, sessionVars,
                   exitCode>>

\* `adb shell ls /data/local/tmp/frida-server`: returncode == 0 iff the file
\* is there and the command ran; an exception counts as "not there".
check_existing_frida_server ==
    /\ pc = "check_existing"
    /\ Issue("ls")
    /\ \E ran \in BOOLEAN :
          IF ran /\ deviceBinary
          THEN pc' = "kill" /\ server_exists' = "yes"
          ELSE pc' = "http_get" /\ server_exists' = "no"
    /\ UNCHANGED <<platform, http_status, deviceVars, localFiles, payloadExists, deviceCmds,
                   failed, device_arch, abi, filename, sessionVars, exitCode>>

(***************************************************************************)
(* download_frida_server(frida_version, arch): every exception raised      *)
(* inside the try block ends the run through sys.exit(1).                  *)
(***************************************************************************)

DownloadFailed(op) ==
    /\ failed' = failed \cup {op}
    /\ errCategory' = "download"
    /\ Exit("1")

\* Variant of http_get without raise_for_status(): an error status goes on
\* to be saved like a successful download.
http_get_unchecked ==
    /\ pc = "http_get"
    /\ Issue("http_get")
    /\ \E status \in {"200", "404", "ConnectionError"} :
          /\ http_status' = status
          /\ IF status \in {"200", "404"}
             THEN pc' = "save_xz" /\ UNCHANGED <<failed, errCategory, exitCode>>
             ELSE DownloadFailed("http_get")
    /\ UNCHANGED <<platform, deviceVars, localFiles, payloadExists, deviceCmds,
                   device_arch, abi, server_exists, filename, target, attached,
                   scriptCreated, handlerOn, scriptLoaded, msgs, msgsEarly,
                   failedStep, raised>>

\* Variant of http_get that tries a second time after a network error.
http_get_retry ==
    /\ pc = "http_get"
    /\ Issue("http_get")
    /\ \E status \in {"200", "404", "ConnectionError"} :
          /\ http_status' = status
          /\ IF status = "200"
             THEN pc' = "save_xz" /\ UNCHANGED <<failed, errCategory, exitCode>>
             ELSE IF status = "ConnectionError" /\ http_status = "none"
                  THEN UNCHANGED <<pc, failed, errCategory, exitCode>>
                  ELSE DownloadFailed("http_get")
    /\ UNCHANGED <<platform, deviceVars, localFiles, payloadExists, deviceCmds,
                   device_arch, abi, server_exists, filename, target, attached,
                   scriptCreated, handlerOn, scriptLoaded, msgs, msgsEarly,
                   failedStep, raised>>

\* response = requests.get(url); response.raise_for_status()
http_get ==
    /\ pc = "http_get"
    /\ Issue("http_get")
    /\ \E status \in {"200", "404", "ConnectionError"} :
          /\ http_status' = status
          /\ IF status = "200"
             THEN pc' = "save_xz" /\ UNCHANGED <<failed, errCategory, exitCode>>
             ELSE DownloadFailed("http_get")
    /\ UNCHANGED <<platform, deviceVars, localFiles, payloadExists, deviceCmds,
                   device_arch, abi, server_exists, filename, target, attached,
                   scriptCreated, handlerOn, scriptLoaded, msgs, msgsEarly,
                   failedStep, raised>>

\* with open(f"{filename}.xz", "wb") as f: f.write(response.content)
\* open() creates the file; a failing write leaves it behind.
save_xz ==
    /\ pc = "save_xz"
    /\ Issue("write_xz")
    /\ \E outcome \in {"ok", "open_fails", "write_fails"} :
          /\ localFiles' = IF outcome = "open_fails" THEN localFiles
                           ELSE localFiles \cup {XzName(FridaVersion, device_arch)}
          /\ IF outcome = "ok"
             THEN pc' = "decompress" /\ UNCHANGED <<failed, errCategory, exitCode>>
             ELSE DownloadFailed("write_xz")
    /\ UNCHANGED <<platform, http_status, deviceVars, payloadExists, deviceCmds,
                   device_arch, abi, server_exists, filename, target, attached,
                   scriptCreated, handlerOn, scriptLoaded, msgs, msgsEarly,
                   failedStep, raised>>

\* lzma.open(xz) / open("frida-server", "wb") / write(compressed.read()):
\* the output file is created before the compressed stream is read, so a
\* corrupt stream leaves an (empty) frida-server behind.
decompress ==
    /\ pc = "decompress"
    /\ Issue("write_local")
    /\ \E outcome \in {"ok", "open_fails", "read_fails"} :
          /\ localFiles' = IF outcome = "open_fails" THEN localFiles
                           ELSE localFiles \cup {LocalBinary}
          /\ IF outcome = "ok"
             THEN pc' = "cleanup_xz" /\ UNCHANGED <<failed, errCategory, exitCode>>
             ELSE DownloadFailed("write_local")
    /\ UNCHANGED <<platform, http_status, deviceVars, payloadExists, deviceCmds,
                   device_arch, abi, server_exists, filename, target, attached,
                   scriptCreated, handlerOn, scriptLoaded, msgs, msgsEarly,
                   failedStep, raised>>

\* Variant of cleanup_xz that forgets os.remove(f"{filename}.xz").
cleanup_xz_keep ==
    /\ pc = "cleanup_xz"
    /\ Issue("remove_xz")
    /\ \E ok \in BOOLEAN :
          IF ok
          THEN /\ localFiles' = localFiles \ {DownloadName(FridaVersion, device_arch)}
               /\ filename' = LocalBinary
               /\ pc' = "kill"
               /\ UNCHANGED <<failed, errCategory, exitCode>>
          ELSE /\ DownloadFailed("remove_xz")
               /\ UNCHANGED <<localFiles, filename>>
    /\ UNCHANGED <<platform, http_status, deviceVars, payloadExists, deviceCmds,
                   device_arch, abi, server_exists, target, attached,
                   scriptCreated, handlerOn, scriptLoaded, msgs, msgsEarly,
                   failedStep, raised>>

\* os.remove(f"{filename}.xz"); if os.path.exists(filename): os.remove(filename);
\* return "frida-server" -- which start_frida_server hands to start_frida.
cleanup_xz ==
    /\ pc = "cleanup_xz"
    /\ Issue("remove_xz")
    /\ \E ok \in BOOLEAN :
          IF ok
          THEN /\ localFiles' = localFiles \ {XzName(FridaVersion, device_arch),
                                              DownloadName(FridaVersion, device_arch)}
               /\ filename' = LocalBinary
               /\ pc' = "kill"
               /\ UNCHANGED <<failed, errCategory, exitCode>>
          ELSE /\ DownloadFailed("remove_xz")
               /\ UNCHANGED <<localFiles, filename>>
    /\ UNCHANGED <<platform, http_status, deviceVars, payloadExists, deviceCmds,
                   device_arch, abi, server_exists, target, attached,
                   scriptCreated, handlerOn, scriptLoaded, msgs, msgsEarly,
                   failedStep, raised>>

(***************************************************************************)
(* start_frida(filename): no subprocess.run here passes check=True, so no  *)
(* CalledProcessError is ever raised and the except clause never runs;     *)
(* every command's exit status is dropped.                                 *)
(***************************************************************************)

\* A privileged shell string handed to subprocess.run(argv, shell=True).
PrivilegedShell(cmd) ==
    IF Delivered(<<"adb", "shell", cmd>>, TRUE)
    THEN deviceCmds' = Append(deviceCmds, cmd)
    ELSE UNCHANGED deviceCmds

\* su -c "pkill -9 frida-server": succeeds only when it reached the device
\* and a server process was there to kill.
kill ==
    /\ pc = "kill"
    /\ Issue("kill")
    /\ PrivilegedShell(KillCmd)
    /\ \E ok \in BOOLEAN :
          IF ok /\ Delivered(<<"adb", "shell", KillCmd>>, TRUE) /\ serverProcs > 0
          THEN serverProcs' = 0 /\ UNCHANGED failed
          ELSE failed' = failed \cup {"kill"} /\ UNCHANGED serverProcs
    /\ pc' = "sleep"
    /\ UNCHANGED <<platform, http_status, deviceBinary, deviceExec, localFiles, payloadExists,
                   device_arch, abi, server_exists, filename, sessionVars, exitCode>>

\* time.sleep(1); then `if filename:` decides whether a push follows.
sleep ==
    /\ pc = "sleep"
    /\ Issue("sleep")
    /\ pc' = IF filename # None THEN "push" ELSE "chmod"
    /\ UNCHANGED <<platform, http_status, deviceVars, localFiles, payloadExists, deviceCmds,
                   failed, device_arch, abi, server_exists, filename, sessionVars,
                   exitCode>>

\* adb push filename /data/local/tmp/frida-server (no shell=True): needs the
\* local file; the pushed copy carries the local file's non-executable mode.
push ==
    /\ pc = "push"
    /\ Issue("push")
    /\ \E ok \in BOOLEAN :
          IF ok /\ filename \in localFiles
          THEN /\ deviceBinary' = TRUE
               /\ deviceExec' = FALSE
               /\ UNCHANGED failed
          ELSE /\ failed' = failed \cup {"push"}
               /\ UNCHANGED <<deviceBinary, deviceExec>>
    /\ pc' = "chmod"
    /\ UNCHANGED <<platform, http_status, serverProcs, localFiles, payloadExists, deviceCmds,
                   device_arch, abi, server_exists, filename, sessionVars, exitCode>>

\* Variant of chmod run with check=True: a failing command ends the run.
chmod_checked ==
    /\ pc = "chmod"
    /\ Issue("chmod")
    /\ PrivilegedShell(ChmodCmd)
    /\ \E ok \in BOOLEAN :
          IF ok /\ Delivered(<<"adb", "shell", ChmodCmd>>, TRUE) /\ deviceBinary
          THEN deviceExec' = TRUE /\ UNCHANGED failed
          ELSE failed' = failed \cup {"chmod"} /\ UNCHANGED deviceExec
    /\ IF "chmod" \in failed' THEN Exit("1")
                             ELSE pc' = "launch" /\ UNCHANGED exitCode
    /\ UNCHANGED <<platform, http_status, deviceBinary, serverProcs, localFiles, payloadExists,
                   device_arch, abi, server_exists, filename, sessionVars>>

\* su -c "chmod 755 /data/local/tmp/frida-server"
chmod ==
    /\ pc = "chmod"
    /\ Issue("chmod")
    /\ PrivilegedShell(ChmodCmd)
    /\ \E ok \in BOOLEAN :
          IF ok /\ Delivered(<<"adb", "shell", ChmodCmd>>, TRUE) /\ deviceBinary
          THEN deviceExec' = TRUE /\ UNCHANGED failed
          ELSE failed' = failed \cup {"chmod"} /\ UNCHANGED deviceExec
    /\ pc' = "launch"
    /\ UNCHANGED <<platform, http_status, deviceBinary, serverProcs, localFiles, payloadExists,
                   device_arch, abi, server_exists, filename, sessionVars, exitCode>>

\* su -c "/data/local/tmp/frida-server -D": a daemon starts only when the
\* command reached the device, the binary is there and executable, and no
\* other server holds the listening port.  start_frida then returns, and
\* start_frida_server removes the downloaded file if there was a download.
launch ==
    /\ pc = "launch"
    /\ Issue("launch")
    /\ PrivilegedShell(LaunchCmd)
    /\ \E ok \in BOOLEAN :
          IF /\ ok
             /\ Delivered(<<"adb", "shell", LaunchCmd>>, TRUE)
             /\ deviceBinary /\ deviceExec /\ serverProcs = 0
          THEN serverProcs' = 1 /\ UNCHANGED failed
          ELSE failed' = failed \cup {"launch"} /\ UNCHANGED serverProcs
    /\ pc' = IF server_exists = "yes" THEN "load_js" ELSE "cleanup_local"
    /\ UNCHANGED <<platform, http_status, deviceBinary, deviceExec, localFiles, payloadExists,
                   device_arch, abi, server_exists, filename, sessionVars, exitCode>>

\* Variant of cleanup_local that leaves the downloaded file in place.
cleanup_local_skip ==
    /\ pc = "cleanup_local"
    /\ IF filename \in localFiles
       THEN /\ Issue("remove_local")
            /\ \E ok \in BOOLEAN :
                  IF ok
                  THEN /\ localFiles' = localFiles
                       /\ pc' = "load_js"
                       /\ UNCHANGED <<failed, errCategory, exitCode>>
                  ELSE /\ failed' = failed \cup {"remove_local"}
                       /\ errCategory' = "traceback"
                       /\ Exit("1")
                       /\ UNCHANGED localFiles
       ELSE /\ pc' = "load_js"
            /\ UNCHANGED <<calls, localFiles, failed, errCategory, exitCode>>
    /\ UNCHANGED <<platform, http_status, deviceVars, payloadExists, deviceCmds,
                   device_arch, abi, server_exists, filename, target, attached,
                   scriptCreated, handlerOn, scriptLoaded, msgs, msgsEarly,
                   failedStep, raised>>

\* if os.path.exists(filename): os.remove(filename) -- outside any try, so
\* an OSError from os.remove ends the run with a traceback (status 1).
cleanup_local ==
    /\ pc = "cleanup_local"
    /\ IF filename \in localFiles
       THEN /\ Issue("remove_local")
            /\ \E ok \in BOOLEAN :
                  IF ok
                  THEN /\ localFiles' = localFiles \ {filename}
                       /\ pc' = "load_js"
                       /\ UNCHANGED <<failed, errCategory, exitCode>>
                  ELSE /\ failed' = failed \cup {"remove_local"}
                       /\ errCategory' = "traceback"
                       /\ Exit("1")
                       /\ UNCHANGED localFiles
       ELSE /\ pc' = "load_js"
            /\ UNCHANGED <<calls, localFiles, failed, errCategory, exitCode>>
    /\ UNCHANGED <<platform, http_status, deviceVars, payloadExists, deviceCmds,
                   device_arch, abi, server_exists, filename, target, attached,
                   scriptCreated, handlerOn, scriptLoaded, msgs, msgsEarly,
                   failedStep, raised>>

(***************************************************************************)
(* hook_proxygen_SSLVerification                                           *)
(***************************************************************************)

\* Variant of load_js_code that reports a missing file and carries on.
load_js_code_unvalidated ==
    /\ pc = "load_js"
    /\ \E readable \in BOOLEAN :
          IF ~payloadExists
          THEN errCategory' = "js_not_found" /\ pc' = "connect" /\ UNCHANGED exitCode
          ELSE IF readable
               THEN pc' = "connect" /\ UNCHANGED <<errCategory, exitCode>>
               ELSE errCategory' = "js_unreadable" /\ Exit("1")
    /\ UNCHANGED <<platform, http_status, deviceVars, localFiles, payloadExists,
                   calls, deviceCmds, failed, device_arch, abi, server_exists,
                   filename, target, attached, scriptCreated, handlerOn,
                   scriptLoaded, msgs, msgsEarly, failedStep, raised>>

\* _load_js_code("./MAIN_SSLPINING.js"): a missing file is sys.exit(1) (the
\* SystemExit passes through `except Exception`); a failing read is caught
\* and is sys.exit(1) as well.
load_js_code ==
    /\ pc = "load_js"
    /\ \E readable \in BOOLEAN :
          IF ~payloadExists
          THEN errCategory' = "js_not_found" /\ Exit("1")
          ELSE IF readable
               THEN pc' = "connect" /\ UNCHANGED <<errCategory, exitCode>>
               ELSE errCategory' = "js_unreadable" /\ Exit("1")
    /\ UNCHANGED <<platform, http_status, deviceVars, localFiles, payloadExists, calls,
                   deviceCmds, failed, device_arch, abi, server_exists, filename,
                   target, attached, scriptCreated, handlerOn, scriptLoaded,
                   msgs, msgsEarly, failedStep, raised>>

\* Exceptions of the frida package; none is a subclass of another.
FridaErrors == {"TransportError", "TimedOutError", "ServerNotRunningError"}

\* The two except clauses around the whole session block: the first matches
\* frida.TransportError raised by ANY of the calls, the second everything
\* else; both end in sys.exit(1).
Category(exc) == IF exc = "TransportError" THEN "unreachable" ELSE "generic"

\* Variant of Raise whose generic handler prints the error and forgets
\* sys.exit(1): the function returns and the script ends with status 0.
Raise_generic_returns(step, exc) ==
    /\ failedStep' = step
    /\ raised' = exc
    /\ failed' = failed \cup {step}
    /\ errCategory' = Category(exc)
    /\ Exit(IF exc = "TransportError" THEN "1" ELSE "0")

Raise(step, exc) ==
    /\ failedStep' = step
    /\ raised' = exc
    /\ failed' = failed \cup {step}
    /\ errCategory' = Category(exc)
    /\ Exit("1")

\* One call into the frida runtime: it returns, or raises.
RuntimeCall(step, next, effect) ==
    /\ Issue(step)
    /\ \/ /\ effect
          /\ pc' = next
          /\ UNCHANGED <<failedStep, raised, failed, errCategory, exitCode>>
       \/ /\ \E exc \in FridaErrors : Raise(step, exc)
          /\ UNCHANGED <<target, attached, scriptCreated, scriptLoaded>>
    /\ UNCHANGED <<platform, http_status, deviceVars, localFiles, payloadExists, deviceCmds,
                   device_arch, abi, server_exists, filename, handlerOn, msgs,
                   msgsEarly>>

\* device = frida.get_usb_device(timeout=5)
get_usb_device ==
    /\ pc = "connect"
    /\ RuntimeCall("connect", "spawn",
                   UNCHANGED <<target, attached, scriptCreated, scriptLoaded>>)

\* pid = device.spawn(["com.facebook.katana"]): the process starts suspended.
spawn ==
    /\ pc = "spawn"
    /\ RuntimeCall("spawn", "attach",
                   target' = "suspended"
                     /\ UNCHANGED <<attached, scriptCreated, scriptLoaded>>)

\* session = device.attach(pid)
attach ==
    /\ pc = "attach"
    /\ RuntimeCall("attach", "resume",
                   attached' = TRUE
                     /\ UNCHANGED <<target, scriptCreated, scriptLoaded>>)

\* device.resume(pid): the target starts executing application code.
resume ==
    /\ pc = "resume"
    /\ RuntimeCall("resume", "create_script",
                   target' = "running"
                     /\ UNCHANGED <<attached, scriptCreated, scriptLoaded>>)

\* script = session.create_script(js_code)
create_script ==
    /\ pc = "create_script"
    /\ RuntimeCall("create_script", "on_message",
                   scriptCreated' = TRUE
                     /\ UNCHANGED <<target, attached, scriptLoaded>>)

\* script.on("message", lambda message, data: print(...))
on_message ==
    /\ pc = "on_message"
    /\ Issue("on_message")
    /\ handlerOn' = TRUE
    /\ pc' = "load"
    /\ UNCHANGED <<platform, http_status, deviceVars, localFiles, payloadExists, deviceCmds,
                   failed, device_arch, abi, server_exists, filename, target,
                   attached, scriptCreated, scriptLoaded, msgs, msgsEarly,
                   errCategory, failedStep, raised, exitCode>>

\* script.load() is entered: the payload starts executing in the target.
load_call ==
    /\ pc = "load"
    /\ Issue("load")
    /\ pc' = "loading"
    /\ UNCHANGED <<platform, http_status, deviceVars, localFiles, payloadExists, deviceCmds,
                   failed, device_arch, abi, server_exists, filename, sessionVars,
                   exitCode>>

\* script.load() returns or raises.
load_return ==
    /\ pc = "loading"
    /\ \/ /\ scriptLoaded' = TRUE
          /\ pc' = "print_loaded"
          /\ UNCHANGED <<failedStep, raised, failed, errCategory, exitCode>>
       \/ /\ \E exc \in FridaErrors : Raise("load", exc)
          /\ UNCHANGED scriptLoaded
    /\ UNCHANGED <<platform, http_status, deviceVars, localFiles, payloadExists, calls,
                   deviceCmds, device_arch, abi, server_exists, filename, target,
                   attached, scriptCreated, handlerOn, msgs, msgsEarly>>

\* print("[✔] Script loaded and running..."); sys.stdin.read() starts to block.
stdin_read ==
    /\ pc = "print_loaded"
    /\ Issue("stdin_read")
    /\ pc' = "wait"
    /\ UNCHANGED <<platform, http_status, deviceVars, localFiles, payloadExists, deviceCmds,
                   failed, device_arch, abi, server_exists, filename, sessionVars,
                   exitCode>>

\* sys.stdin.read() returns at end-of-file: the function returns, the script
\* reaches its end and the interpreter exits with status 0.
stdin_eof ==
    /\ pc = "wait"
    /\ Exit("0")
    /\ UNCHANGED <<platform, http_status, deviceVars, localFiles, payloadExists, calls,
                   deviceCmds, failed, device_arch, abi, server_exists, filename,
                   sessionVars>>

\* Ctrl+C during the wait: KeyboardInterrupt is no Exception, so neither
\* except clause catches it and the interpreter dies of the interrupt.
interrupt ==
    /\ pc = "wait"
    /\ Exit("SIGINT")
    /\ UNCHANGED <<platform, http_status, deviceVars, localFiles, payloadExists, calls,
                   deviceCmds, failed, device_arch, abi, server_exists, filename,
                   sessionVars>>

\* Variant of deliver_message in which the payload already runs, and sends,
\* once the handler is registered and before script.load() is entered.
deliver_message_early ==
    /\ handlerOn
    /\ pc \in {"load", "loading", "print_loaded", "wait"}
    /\ msgs < MaxMessages
    /\ msgs' = msgs + 1
    /\ msgsEarly' = IF pc = "wait" THEN msgsEarly ELSE msgsEarly + 1
    /\ UNCHANGED <<pc, platform, http_status, deviceVars, localFiles, payloadExists, calls,
                   deviceCmds, failed, device_arch, abi, server_exists, filename,
                   target, attached, scriptCreated, handlerOn, scriptLoaded,
                   errCategory, failedStep, raised, exitCode>>

\* The runtime's own thread invokes the registered handler for a message the
\* payload sent; the payload runs from the moment load() is entered.
deliver_message ==
    /\ handlerOn
    /\ pc \in {"loading", "print_loaded", "wait"}
    /\ msgs < MaxMessages
    /\ msgs' = msgs + 1
    /\ msgsEarly' = IF pc = "wait" THEN msgsEarly ELSE msgsEarly + 1
    /\ UNCHANGED <<pc, platform, http_status, deviceVars, localFiles, payloadExists, calls,
                   deviceCmds, failed, device_arch, abi, server_exists, filename,
                   target, attached, scriptCreated, handlerOn, scriptLoaded,
                   errCategory, failedStep, raised, exitCode>>

Next ==
    \/ check_adb_availability
    \/ check_device_connection
    \/ launch_scrcpy
    \/ get_device_arch
    \/ check_existing_frida_server
    \/ http_get
    \/ save_xz
    \/ decompress
    \/ cleanup_xz
    \/ kill
    \/ sleep
    \/ push
    \/ chmod
    \/ launch
    \/ cleanup_local
    \/ load_js_code
    \/ get_usb_device
    \/ spawn
    \/ attach
    \/ resume
    \/ create_script
    \/ on_message
    \/ load_call
    \/ load_return
    \/ stdin_read
    \/ stdin_eof
    \/ interrupt
    \/ deliver_message

Spec == Init /\ [][Next]_vars

TypeOK ==
    /\ platform \in {"posix", "nt"}
    /\ serverProcs \in {0, 1}
    /\ exitCode \in {"none", "0", "1", "SIGINT"}
    /\ (pc = "exited") = (exitCode # "none")
    /\ msgs \in 0..MaxMessages

(***************************************************************************)
(* Properties                                                              *)
(***************************************************************************)

Count(op) == Cardinality({i \in 1..Len(calls) : calls[i] = op})

\* The first position of op in calls; 0 when it was never issued.
Pos(op) ==
    IF Issued(op) THEN CHOOSE i \in 1..Len(calls) :
                          calls[i] = op /\ \A j \in 1..(i - 1) : calls[j] # op
    ELSE 0

ConnectOps == {"connect", "spawn", "attach"}
RuntimeOps == {"connect", "spawn", "attach", "resume", "create_script", "load"}
DeployOps == {"kill", "push", "chmod", "launch"}
FileOps == {"write_xz", "write_local", "remove_xz", "remove_local"}

NoneIssued(ops) == \A op \in ops : ~Issued(op)

\* C1: resume(pid) is issued only after script.load() has completed, so the
\* target never runs application code while the payload is not yet loaded.
C1_ResumeOnlyAfterLoad ==
    (Issued("resume") \/ target = "running") => scriptLoaded

\* C2: when the architecture query, the push, the chmod or the launch
\* command fails, the run ends with exit status 1 and no session operation
\* (connect, spawn, attach) is attempted.
C2_StageFailureAborts ==
    failed \cap {"getprop_abi", "push", "chmod", "launch"} # {}
        => /\ NoneIssued(ConnectOps)
           /\ exitCode \in {"none", "1"}
           /\ pc \notin {"load_js", "connect"}

\* C3: once start_frida has completed (its last command, the launch, has
\* returned) exactly one server process is running on the device.
C3_ExactlyOneServer ==
    Issued("launch") => serverProcs = 1

\* C4: when the connectivity check finds no device, the run has ended with
\* exit status 1 and no later operation was issued: the connectivity check
\* is the last call of the run.
C4_NoDeviceAborts ==
    "get_state" \in failed
        => /\ pc = "exited"
           /\ exitCode = "1"
           /\ calls = <<"adb_version", "get_state">>
           /\ deviceCmds = <<>>

C4_Witness == "get_state" \in failed /\ pc = "exited"

\* C5: no server binary on the device and the download answers with a
\* non-success HTTP status: the run has ended with exit status 1, no kill,
\* push, chmod or launch was issued, the device received no command and no
\* session call was made.
C5_DownloadHttpErrorAborts ==
    (server_exists = "no" /\ http_status = "404")
        => /\ pc = "exited"
           /\ exitCode = "1"
           /\ NoneIssued(DeployOps)
           /\ deviceCmds = <<>>
           /\ NoneIssued(RuntimeOps)
           /\ calls[Len(calls)] = "http_get"

C5_Witness == server_exists = "no" /\ http_status = "404" /\ pc = "exited"

\* C6: with the server binary already on the device, provisioning performs
\* no download and no push, the device receives the kill, chmod and launch
\* command strings in that order, and the session calls come only after.
C6_PresentServerRestart ==
    (server_exists = "yes" /\ Issued("launch"))
        => /\ ~Issued("http_get")
           /\ ~Issued("push")
           /\ Pos("kill") < Pos("chmod") /\ Pos("chmod") < Pos("launch")
           /\ deviceCmds = <<KillCmd, ChmodCmd, LaunchCmd>>
           /\ \A op \in ConnectOps : Issued(op) => Pos("launch") < Pos(op)

\* C7: once the existence check has reported a server binary on the device,
\* no step issues a network request and no step creates, writes or deletes
\* a local file.
C7_PresentServerNoFetch ==
    [][server_exists' = "yes"
         => /\ localFiles' = localFiles
            /\ ~Issued("http_get")'
            /\ NoneIssued(FileOps)']_vars

C7_Witness ==
    server_exists = "yes" /\ Issued("launch") /\ localFiles # {} /\ pc = "load_js"

\* C8: when download_frida_server returns on a successful download, exactly
\* one HTTP request was issued, exactly one decompressed file was written
\* and is present, and the compressed .xz file is gone (and stays gone).
C8_DownloadSuccess ==
    filename = LocalBinary
        => /\ Count("http_get") = 1
           /\ Count("write_local") = 1
           /\ XzName(FridaVersion, device_arch) \notin localFiles
           /\ (pc = "kill" => LocalBinary \in localFiles)

C8_Witness ==
    filename = LocalBinary /\ pc = "kill" /\ http_status = "200"

\* C9: when the payload file does not exist, no call into the
\* instrumentation runtime is ever made, and the session step ends the run
\* with exit status 1.
C9_MissingPayloadAborts ==
    ~payloadExists
        => /\ NoneIssued(RuntimeOps \cup {"on_message", "stdin_read"})
           /\ exitCode \in {"none", "1"}
           /\ (errCategory = "js_not_found" => pc = "exited" /\ exitCode = "1")

C9_Witness == ~payloadExists /\ errCategory = "js_not_found" /\ exitCode = "1"

\* C10: a timeout of the connect call is reported in the category "server
\* not reachable", and a failure of every other session call (spawn, attach,
\* resume, script creation, script load) in the generic category.
C10_TimeoutDistinctCategory ==
    /\ (failedStep = "connect" /\ raised = "TimedOutError")
          => errCategory = "unreachable"
    /\ failedStep \in {"spawn", "attach", "resume", "create_script", "load"}
          => errCategory = "generic"

\* C11: once the script is loaded the controlling process ends only by
\* external interruption: it never leaves the blocking wait on its own and
\* never exits with status 0.
C11_OnlyInterruptEndsSession ==
    scriptLoaded => exitCode \in {"none", "SIGINT"}

\* C12: every detected failure (adb missing, no device, download or
\* decompression failure, payload missing or unreadable, an exception from
\* a runtime call) has ended the run with exit status 1, and the failing
\* operation is the last one the run issued.
DetectedFailures ==
    {"adb_version", "get_state", "http_get", "write_xz", "write_local"}
        \cup RuntimeOps

C12_FailFast ==
    /\ failed \cap DetectedFailures # {}
          => /\ pc = "exited"
             /\ exitCode = "1"
             /\ calls[Len(calls)] \in failed \cap DetectedFailures
    /\ errCategory \in {"js_not_found", "js_unreadable"}
          => /\ pc = "exited"
             /\ exitCode = "1"
             /\ NoneIssued(RuntimeOps \cup {"on_message", "stdin_read"})

C12_Witness ==
    /\ failedStep = "attach" /\ raised = "ServerNotRunningError"
    /\ pc = "exited" /\ exitCode = "1"

\* C13: the architecture resolver maps the four supported ABI strings to
\* their tags and returns every other string unchanged, the empty string of
\* a failed query included.
C13_ArchResolve ==
    Issued("getprop_abi")
        => /\ abi = "arm64-v8a"   => device_arch = "android-arm64"
           /\ abi = "armeabi-v7a" => device_arch = "android-arm"
           /\ abi = "x86"         => device_arch = "android-x86"
           /\ abi = "x86_64"      => device_arch = "android-x86_64"
           /\ abi \notin {"arm64-v8a", "armeabi-v7a", "x86", "x86_64"}
                 => device_arch = abi

C13_Witness ==
    "getprop_abi" \in failed /\ abi = "" /\ device_arch = ""

\* C14: start_frida issues kill, pause, push, chmod, launch in that order;
\* the push is issued exactly when the artifact was downloaded in this run;
\* once the kill is issued nothing ends the step early, so chmod and launch
\* are issued whatever the kill, push and chmod commands reported.
C14_LifecycleOrder ==
    /\ Issued("sleep") => Pos("kill") < Pos("sleep")
    /\ Issued("push")
          => /\ Pos("sleep") < Pos("push")
             /\ filename = LocalBinary /\ http_status = "200"
    /\ Issued("chmod")
          => /\ Pos("sleep") < Pos("chmod")
             /\ Pos("push") < Pos("chmod")
             /\ Issued("push") <=> (filename = LocalBinary /\ http_status = "200")
    /\ Issued("launch") => Pos("chmod") < Pos("launch")
    /\ (Issued("kill") /\ pc \notin {"sleep", "push", "chmod", "launch"})
          => Issued("chmod") /\ Issued("launch")

C14_Witness ==
    /\ Issued("launch") /\ Issued("push")
    /\ {"kill", "push", "chmod"} \subseteq failed

\* C15 (as stated): no payload message reaches the handler before the
\* controller has entered its blocking wait.
C15_NoMessageBeforeWait ==
    msgsEarly = 0

\* C15 (amended): a payload message reaches the handler only after spawn,
\* attach, resume, script creation and handler registration have completed
\* and script.load() has been entered; it may arrive while load() is still
\* running and before the blocking wait.
C15_NoMessageBeforeLoadEntered ==
    msgs > 0
        => /\ handlerOn /\ scriptCreated /\ attached
           /\ Issued("spawn") /\ Issued("resume")
           /\ Issued("load")

C15_Witness ==
    msgsEarly > 0 /\ pc = "loading" /\ ~scriptLoaded

\* C16: when the download step fails after the compressed file was written
\* (decompression failure), the run has ended with exit status 1 after a
\* single request and the compressed file is gone.
C16_FailedDownloadCleansXz ==
    "write_local" \in failed
        => /\ pc = "exited" /\ exitCode = "1"
           /\ Count("http_get") = 1
           /\ XzName(FridaVersion, device_arch) \notin localFiles

\* C17: no operation is retried: the existence check, download, kill, push,
\* chmod, launch, connect, spawn, attach, resume and script load are each
\* issued at most once in a run.
C17_NoRetry ==
    \A op \in {"ls", "http_get"} \cup DeployOps \cup RuntimeOps : Count(op) <= 1

C17_Witness ==
    /\ Issued("push") /\ {"kill", "launch", "connect"} \subseteq failed
    /\ pc = "exited"

\* C18: on the download path the decompressed local binary is present
\* from the return of the download until the launch command has returned
\* (so in particular when the push is issued), and once provisioning has
\* returned neither it nor the compressed file is left.
ProvisioningReturned ==
    pc \in {"load_js", "connect", "spawn", "attach", "resume", "create_script",
            "on_message", "load", "loading", "print_loaded", "wait"}
      \/ (pc = "exited" /\ Issued("launch") /\ errCategory # "traceback")

C18_LocalBinaryLifetime ==
    /\ (filename = LocalBinary /\ ~Issued("launch")) => LocalBinary \in localFiles
    /\ ~Issued("launch") => ~Issued("remove_local")
    /\ (server_exists = "no" /\ ProvisioningReturned)
          => /\ LocalBinary \notin localFiles
             /\ XzName(FridaVersion, device_arch) \notin localFiles

C18_Witness ==
    server_exists = "no" /\ pc = "load_js" /\ Issued("remove_local")

====
